---- MODULE Spec2Model ----
(***************************************************************************)
(* The layered LXC image build pipeline of sandbox/images: the base build  *)
(* (RunUbuntuContainer), the layered build (buildLayeredContainer with     *)
(* buildJava8Layer), the provisioning scripts they run, and the export of  *)
(* the result as a tar.gz archive with its "latest" symlink and metadata.  *)
(* Every external command (runCommand) and every file operation whose      *)
(* error the code inspects or drops has both outcomes; the number of       *)
(* failures in one behaviour is bounded by MaxFaults.                      *)
(***************************************************************************)
EXTENDS Integers, Sequences, FiniteSets, TLC

\* ------------------------------------------------------------------ bounds

\* Number of build invocations (Run... calls) in one behaviour.
MaxBuilds == 2

\* Number of operations that fail for an outside reason in one behaviour (a
\* command exiting non-zero, a file operation returning an error).  Failures
\* the state itself forces (stopping a container that is not running, a
\* symlink whose path is taken) are not counted.
MaxFaults == 1

\* Latest second the wall clock reaches (archive names carry the second).
MaxClock == 1

\* ------------------------------------------------------- program constants

\* for i := 0; i < 30; i++ : the readiness poll
ReadyAttempts == 30

\* for i in {1..3} : the apt-get update retry loop of the Java 8 script
UpdateAttempts == 3

UbuntuBase == "ubuntu-base"
UbuntuJava8 == "ubuntu-java8"
Names == {UbuntuBase, UbuntuJava8}

\* Paths inside a rootfs.
Jvm == "usr/lib/jvm"
JavaHome == "usr/lib/jvm/java-8-openjdk-amd64"
EtcEnvironment == "etc/environment"
BashRc == "etc/bash.bashrc"
Java == "usr/bin/java"
Javac == "usr/bin/javac"
ResolvConf == "etc/resolv.conf"
OsRelease == "etc/os-release"
LsbRelease == "etc/lsb-release"
SetupSh == "setup.sh"
Java8SetupSh == "java8-setup.sh"
AppDir == "app"
BinBash == "bin/bash"
Curl == "usr/bin/curl"

\* possibleFiles of exportLayeredContainer, in order.
possibleFiles == <<Jvm, EtcEnvironment, BashRc, Java, Javac>>

\* The paths at or below p (tar packs a directory with what is under it).
Under(p) == IF p = Jvm THEN {Jvm, JavaHome} ELSE {p}

\* Script payloads (the three setupScript string literals).
UbuntuScript == "ubuntu-setup"
Java8Script == "java8-setup"
ChrootScript == "ubuntu-chroot-setup"

\* Symlink names in the work directory: "lxc-ubuntu-latest.tar.gz" and
\* fmt.Sprintf("lxc-%s-layer-latest.tar.gz", containerName).
BaseLatest == [subject |-> "ubuntu", layered |-> FALSE]
LayerLatest(name) == [subject |-> name, layered |-> TRUE]

\* Archive file names: fmt.Sprintf("lxc-ubuntu-base-%s.tar.gz", timestamp) and
\* fmt.Sprintf("lxc-%s-layer-%s.tar.gz", containerName, timestamp).
BaseArchiveName(ts) == [subject |-> "ubuntu-base", layered |-> FALSE, ts |-> ts]
LayerArchiveName(name, ts) == [subject |-> name, layered |-> TRUE, ts |-> ts]

VARIABLES
    pc,        \* position of the running invocation ("idle": none running)
    inv,       \* the invocation's arguments: kind, name, parent
    bl,        \* locals of the build function
    ex,        \* locals of the export function
    sc,        \* the running provisioning script: payload, position, retry loop
    calls,     \* the operations this invocation has performed so far
    cont,      \* ContainerDir: one directory per container name
    store,     \* the file trees the rootfs directories hold
    running,   \* containers the LXC runtime has running
    hostFiles, \* script files in ContainerDir itself
    archives,  \* archive files in WorkDir
    latest,    \* symlinks in WorkDir
    meta,      \* <layer>-layer.json files in WorkDir
    clock,     \* wall clock, in seconds
    logFile,   \* LXCBuilder.LogFile: "none" | "nil" | "open" | "closed"
    builds,    \* invocations started
    faults     \* failures injected so far

vars == <<pc, inv, bl, ex, sc, calls, cont, store, running, hostFiles,
          archives, latest, meta, clock, logFile, builds, faults>>

fsVars == <<cont, store, running, hostFiles>>
workVars == <<archives, latest, meta>>

\* An operation that succeeds, and one that fails for an outside reason.
Ok == faults' = faults
Fail == faults < MaxFaults /\ faults' = faults + 1

\* ------------------------------------------------------------- file trees

EmptyTree == [p \in {} |-> <<>>]

Exists(t, p) == p \in DOMAIN t

WriteFile(t, p, v) == (p :> v) @@ t

AppendLine(t, p, l) ==
    IF p \in DOMAIN t THEN (p :> Append(t[p], l)) @@ t ELSE (p :> <<l>>) @@ t

Remove(t, p) == [q \in DOMAIN t \ {p} |-> t[q]]

Restrict(t, ps) == [q \in DOMAIN t \cap ps |-> t[q]]

\* What lxc-create -t download may unpack: a stock Ubuntu tree, or a minimal
\* skeleton without the /etc files the layer export looks for.
StockTree ==
    (BinBash :> <<"elf">>) @@ (EtcEnvironment :> <<"PATH">>) @@
    (BashRc :> <<"rc">>) @@ (OsRelease :> <<"stock">>)

MinimalTree == (BinBash :> <<"elf">>)

Templates == {StockTree, MinimalTree}

\* The four nameserver lines both the attach command and the scripts write.
Nameservers == <<"nameserver 8.8.8.8", "nameserver 8.8.4.4", "nameserver 1.1.1.1", "nameserver 1.0.0.1">>

\* --------------------------------------------------------- container dirs

Stores == 1 .. Cardinality(Names)

\* A container directory: whether it exists, the store holding its rootfs,
\* whether a copy of the parent sits inside it (cp -r into an existing
\* directory), the name its config carries, and the appended network lines.
NoDir == [exists |-> FALSE, rootfs |-> 0, nested |-> FALSE, uts |-> "", appended |-> FALSE]

\* dirExists(path): os.Stat does not report IsNotExist
dirExists(name) == cont[name].exists

UsedStores == {cont[n].rootfs : n \in Names} \ {0}

FreeStore == CHOOSE s \in Stores : s \notin UsedStores /\ \A r \in Stores : r \notin UsedStores => s <= r

Rootfs(name) == IF cont[name].rootfs = 0 THEN EmptyTree ELSE store[cont[name].rootfs]

\* A write of tree t as the rootfs of container name.
SetRootfs(name, t) == [store EXCEPT ![cont[name].rootfs] = t]

\* ------------------------------------------------------------ invocation

NoInv == [kind |-> "none", name |-> "", parent |-> ""]

NoBuild == [startOk |-> FALSE, i |-> 0, ready |-> FALSE, mode |-> "none",
            scriptErr |-> FALSE, cpErr |-> FALSE, written |-> FALSE,
            cloned |-> FALSE, buildErr |-> FALSE]

NoExport == [diff |-> FALSE, ts |-> 0, filesToTar |-> <<>>, proxmoxErr |-> FALSE,
             tarOk |-> FALSE, linkErr |-> FALSE, exportErr |-> FALSE]

NoScript == [payload |-> "none", spc |-> "none", attempts |-> 0, updOk |-> FALSE]

Init ==
    /\ pc = "idle"
    /\ inv = NoInv
    /\ bl = NoBuild
    /\ ex = NoExport
    /\ sc = NoScript
    /\ calls = {}
    /\ cont = [n \in Names |-> NoDir]
    /\ store = [s \in Stores |-> EmptyTree]
    /\ running = {}
    /\ hostFiles = EmptyTree
    /\ archives = EmptyTree
    /\ latest = EmptyTree
    /\ meta = EmptyTree
    /\ clock = 0
    /\ logFile = "none"
    /\ builds = 0
    /\ faults = 0

\* NewLXCBuilder: os.Create of the log file may fail, leaving LogFile nil.
NewLXCBuilder(kind, name, parent) ==
    /\ \/ logFile' = "open" /\ Ok
       \/ logFile' = "nil" /\ Fail
    /\ inv' = [kind |-> kind, name |-> name, parent |-> parent]
    /\ pc' = "stopPre"

\* The entry points: Getwd and MkdirAll may fail, and then no builder is made.
EnterBuild(kind, name, parent) ==
    /\ pc = "idle"
    /\ builds < MaxBuilds
    /\ builds' = builds + 1
    /\ \/ NewLXCBuilder(kind, name, parent)
       \/ Fail /\ UNCHANGED <<pc, inv, logFile>>
    /\ UNCHANGED <<bl, ex, sc, calls, fsVars, workVars, clock>>

RunUbuntuContainer == EnterBuild("base", UbuntuBase, "")

buildLayeredContainer(containerName, parentLayer) ==
    EnterBuild("layer", containerName, parentLayer)

RunJava8Container == buildLayeredContainer(UbuntuJava8, UbuntuBase)

\* ------------------------------------------------- build: create the container

\* l.runCommand("lxc-stop", ...): the error is dropped.  Stopping a container
\* that is not running fails.
LxcStop ==
    IF inv.name \in running
    THEN \/ running' = running \ {inv.name} /\ Ok
         \/ running' = running /\ Fail
    ELSE running' = running /\ Ok

\* What runCommand's log shows of an lxc-stop: whether it failed on a running
\* container and left it running.
StopOutcome ==
    IF inv.name \in running /\ inv.name \in running' THEN {"stop-left-running"} ELSE {}

LxcStopPre ==
    /\ pc = "stopPre"
    /\ LxcStop
    /\ calls' = calls \cup {"lxc-stop-pre"} \cup StopOutcome
    /\ pc' = "destroyPre"
    /\ UNCHANGED <<inv, bl, ex, sc, cont, store, hostFiles, workVars, clock, logFile, builds>>

\* l.runCommand("lxc-destroy", ...): the error is dropped. It succeeds only on
\* an existing, stopped container, and removes its directory.
LxcDestroyPre ==
    /\ pc = "destroyPre"
    /\ IF dirExists(inv.name) /\ inv.name \notin running
       THEN \/ /\ cont' = [cont EXCEPT ![inv.name] = NoDir]
               /\ store' = [store EXCEPT ![cont[inv.name].rootfs] = EmptyTree]
               /\ Ok
            \/ UNCHANGED <<cont, store>> /\ Fail
       ELSE UNCHANGED <<cont, store>> /\ Ok
    /\ calls' = calls \cup {"lxc-destroy-pre"}
    /\ pc' = "create"
    /\ UNCHANGED <<inv, bl, ex, sc, running, hostFiles, workVars, clock, logFile, builds>>

\* Where the build goes after the container exists: the base build appends to
\* the config, the Java 8 build goes straight to writing the script.
AfterCreate == IF inv.kind = "layer" THEN "write" ELSE "config"

\* lxc-create -t download: fails when the directory is still there.
LxcCreate ==
    /\ \/ /\ ~dirExists(inv.name)
          /\ \E t \in Templates :
                /\ cont' = [cont EXCEPT ![inv.name] =
                              [exists |-> TRUE, rootfs |-> FreeStore, nested |-> FALSE,
                               uts |-> inv.name, appended |-> FALSE]]
                /\ store' = [store EXCEPT ![FreeStore] = t]
          /\ pc' = AfterCreate
          /\ bl' = bl
          /\ Ok
       \/ /\ UNCHANGED <<cont, store>>
          /\ bl' = [bl EXCEPT !.buildErr = TRUE]
          /\ pc' = "ret"
          /\ IF dirExists(inv.name) THEN Ok ELSE Fail
    /\ calls' = calls \cup {"lxc-create"}

\* strings.ReplaceAll(newContent, parentLayer, containerName) on the name the
\* config carries.
ReplaceAll(uts, parentLayer, containerName) ==
    IF uts = parentLayer THEN containerName ELSE uts

\* A copy that shares the parent's rootfs instead of duplicating it (a link).
ParentStore == cont[inv.parent].rootfs

\* The store a recursive copy of the parent's rootfs lands in.
CopyTarget == FreeStore

\* cp -r parentPath newPath: into a directory that already exists it puts the
\* copy inside that directory, leaving its rootfs and config as they were.
CopyParent(containerName, parentLayer) ==
    IF ~dirExists(containerName)
    THEN /\ cont' = [cont EXCEPT ![containerName] =
                       [cont[parentLayer] EXCEPT !.rootfs = CopyTarget]]
         /\ store' = [store EXCEPT ![CopyTarget] = Rootfs(parentLayer)]
    ELSE /\ cont' = [cont EXCEPT ![containerName].nested = TRUE]
         /\ store' = store

\* createLayerFromParent, first half: the copy; its failure is returned.
createLayerFromParent(containerName, parentLayer) ==
    /\ \/ /\ CopyParent(containerName, parentLayer)
          /\ bl' = [bl EXCEPT !.cloned = TRUE]
          /\ pc' = "rename"
          /\ Ok
       \/ /\ UNCHANGED <<cont, store>>
          /\ bl' = [bl EXCEPT !.buildErr = TRUE]
          /\ pc' = "ret"
          /\ Fail
    /\ calls' = calls \cup {"cp-r"}

\* createLayerFromParent, second half: the config is read, the parent's name
\* replaced, and the file written back when that changed it.  A failed read
\* skips the rewrite, a failed write is dropped.
RenameConfig ==
    /\ pc = "rename"
    /\ \/ /\ cont' = [cont EXCEPT ![inv.name].uts = ReplaceAll(cont[inv.name].uts, inv.parent, inv.name)]
          /\ Ok
       \/ /\ cont' = cont
          /\ Fail
    /\ pc' = AfterCreate
    /\ UNCHANGED <<inv, bl, ex, sc, calls, store, running, hostFiles, workVars, clock, logFile, builds>>

\* if parentLayer != "" && l.dirExists(parentPath)
UseParent == inv.kind = "layer" /\ inv.parent # "" /\ dirExists(inv.parent)

Create ==
    /\ pc = "create"
    /\ IF UseParent
       THEN createLayerFromParent(inv.name, inv.parent)
       ELSE LxcCreate
    /\ UNCHANGED <<inv, ex, sc, running, hostFiles, workVars, clock, logFile, builds>>

\* appendToConfig: a failure is only logged.
appendToConfig ==
    /\ pc = "config"
    /\ \/ cont' = [cont EXCEPT ![inv.name].appended = TRUE] /\ Ok
       \/ cont' = cont /\ Fail
    /\ pc' = "write"
    /\ UNCHANGED <<inv, bl, ex, sc, calls, store, running, hostFiles, workVars, clock, logFile, builds>>

\* scriptPath and the payload written to it.
HostScript == IF inv.kind = "layer" THEN Java8SetupSh ELSE SetupSh
Payload == IF inv.kind = "layer" THEN Java8Script
           ELSE IF inv.kind = "base" THEN UbuntuScript ELSE ChrootScript

\* After the script is written the build starts the container; the chroot-only
\* variant of the base build (sandbox/images/lxc.go) never starts one.
AfterWrite == IF inv.kind = "chrootbase" THEN "inline" ELSE "start"

\* os.WriteFile(scriptPath, setupScript, 0755): a failure aborts the build.
WriteScript ==
    /\ pc = "write"
    /\ \/ /\ hostFiles' = WriteFile(hostFiles, HostScript, <<Payload>>)
          /\ bl' = [bl EXCEPT !.written = TRUE]
          /\ pc' = AfterWrite
          /\ Ok
       \/ /\ hostFiles' = hostFiles
          /\ bl' = [bl EXCEPT !.buildErr = TRUE]
          /\ pc' = "ret"
          /\ Fail
    /\ calls' = calls \cup {"write-script"}
    /\ UNCHANGED <<inv, ex, sc, cont, store, running, workVars, clock, logFile, builds>>

\* ------------------------------------------- build: the live-container path

\* A start that ends the build without the fallback.
ReturnOnStartFailure == "ret"

\* A start whose error is ignored: the build attaches all the same.
AttachAfterStartFailure == "dns"

\* Where the build goes when lxc-start failed: return l.fallbackToChroot(...)
AfterStartFailure == "fbcp"

\* lxc-start -d: a failure sends the build to fallbackToChroot.
LxcStart ==
    /\ pc = "start"
    /\ \/ /\ running' = running \cup {inv.name}
          /\ bl' = [bl EXCEPT !.startOk = TRUE]
          /\ pc' = "poll"
          /\ Ok
       \/ /\ running' = running
          /\ bl' = bl
          /\ pc' = AfterStartFailure
          /\ Fail
    /\ calls' = calls \cup {"lxc-start"}
    /\ UNCHANGED <<inv, ex, sc, cont, store, hostFiles, workVars, clock, logFile, builds>>

\* A loop that checks again after a check has succeeded.
PollAfterReady(ready) == IF ready THEN "poll" ELSE "dns"

\* Where the build goes when the readiness loop ends: by break (ready) or by
\* running out of attempts (not ready), the code continues with the DNS setup.
AfterPoll(ready) == "dns"

\* What one pass of the loop body does besides the check: time.Sleep(1 *
\* time.Second) when the check failed, nothing (break) when it succeeded.
Slept(ok) == IF ok THEN {} ELSE {"sleep"}

\* for i := 0; i < 30; i++ { if lxc-info succeeds { break }; sleep }
\* A runtime that does not report the container keeps not reporting it: only
\* the first failed check counts as a failure.
PollReady ==
    /\ pc = "poll"
    /\ bl.i < ReadyAttempts
    /\ \/ /\ bl' = [bl EXCEPT !.ready = TRUE, !.i = 0]
          /\ pc' = AfterPoll(TRUE)
          /\ calls' = calls \cup {"lxc-info"} \cup Slept(TRUE)
          /\ Ok
       \/ /\ IF bl.i + 1 < ReadyAttempts
             THEN /\ bl' = [bl EXCEPT !.i = bl.i + 1]
                  /\ pc' = "poll"
             ELSE /\ bl' = [bl EXCEPT !.i = 0]
                  /\ pc' = AfterPoll(FALSE)
          /\ calls' = calls \cup {"lxc-info"} \cup Slept(FALSE)
          /\ IF bl.i = 0 THEN Fail ELSE Ok
    /\ UNCHANGED <<inv, ex, sc, fsVars, workVars, clock, logFile, builds>>

\* lxc-attach ... -c dnsSetupCmd: a failure is only logged.
AttachDNS ==
    /\ pc = "dns"
    /\ \/ store' = SetRootfs(inv.name, WriteFile(Rootfs(inv.name), ResolvConf, Nameservers)) /\ Ok
       \/ store' = store /\ Fail
    /\ calls' = calls \cup {"attach-dns"}
    /\ pc' = "cp"
    /\ UNCHANGED <<inv, bl, ex, sc, cont, running, hostFiles, workVars, clock, logFile, builds>>

\* containerScriptPath of the live path.
ContainerScript == IF inv.kind = "layer" THEN Java8SetupSh ELSE SetupSh

\* A copy failure that returns the error at once.
ReturnOnCopyFailure == "ret"

\* Where the live path goes when the copy into the rootfs failed: to the
\* lxc-stop that precedes the return.
AfterCopyFailure == "stopAbort"

\* cp scriptPath containerScriptPath; a failure stops the container and
\* returns the error.
CopyScript ==
    /\ pc = "cp"
    /\ \/ /\ store' = SetRootfs(inv.name, WriteFile(Rootfs(inv.name), ContainerScript, hostFiles[HostScript]))
          /\ bl' = bl
          /\ pc' = "attach"
          /\ Ok
       \/ /\ store' = store
          /\ bl' = [bl EXCEPT !.cpErr = TRUE]
          /\ pc' = AfterCopyFailure
          /\ Fail
    /\ UNCHANGED <<inv, ex, sc, calls, cont, running, hostFiles, workVars, clock, logFile, builds>>

\* l.runCommand("lxc-stop", ...); return fmt.Errorf("failed to copy setup script")
StopAfterCopyFailure ==
    /\ pc = "stopAbort"
    /\ LxcStop
    /\ bl' = [bl EXCEPT !.buildErr = TRUE]
    /\ calls' = calls \cup {"lxc-stop-post"} \cup StopOutcome
    /\ pc' = "ret"
    /\ UNCHANGED <<inv, ex, sc, cont, store, hostFiles, workVars, clock, logFile, builds>>

\* The script a "/bin/bash <path>" inside the target runs, and where it starts:
\* only the chroot-only variant's script has no resolver step.
StartScript(path) ==
    [payload |-> Rootfs(inv.name)[path][1],
     spc |-> IF Rootfs(inv.name)[path][1] = ChrootScript THEN "update" ELSE "resolv",
     attempts |-> 0, updOk |-> FALSE]

\* A live path that goes from the script to the removals, without the stop.
RemoveWithoutStop(err) == "rmHost"

\* Where the live path goes after lxc-attach of the script returned err.
AfterAttach(err) ==
    IF inv.kind = "layer" THEN (IF err THEN "debug" ELSE "verify") ELSE "stopPost"

\* lxc-attach ... /bin/bash /setup.sh (or /java8-setup.sh): the attach itself
\* may fail, or the script runs and its exit status is the result.
AttachScript ==
    /\ pc = "attach"
    /\ \/ /\ bl' = [bl EXCEPT !.scriptErr = TRUE]
          /\ sc' = sc
          /\ pc' = AfterAttach(TRUE)
          /\ Fail
       \/ /\ bl' = [bl EXCEPT !.mode = "attach"]
          /\ sc' = StartScript(ContainerScript)
          /\ pc' = "script"
          /\ Ok
    /\ calls' = calls \cup {"attach-script"}
    /\ UNCHANGED <<inv, ex, fsVars, workVars, clock, logFile, builds>>

\* The four diagnostic lxc-attach commands of buildJava8Layer; results dropped.
Debug ==
    /\ pc = "debug"
    /\ calls' = calls \cup {"attach-debug"}
    /\ pc' = "verify"
    /\ UNCHANGED <<inv, bl, ex, sc, fsVars, workVars, clock, logFile, builds, faults>>

\* lxc-attach ... java -version: a failure is only logged.
VerifyJava ==
    /\ pc = "verify"
    /\ calls' = calls \cup {"attach-verify"}
    /\ pc' = "stopPost"
    /\ UNCHANGED <<inv, bl, ex, sc, fsVars, workVars, clock, logFile, builds, faults>>

\* A stop whose error ends the build function.
ReturnOnStopError(err) == IF err THEN "ret" ELSE "rmHost"

\* Where the build goes after the post-provisioning lxc-stop returned err.
AfterStop(err) == "rmHost"

\* l.runCommand("lxc-stop", ...) after provisioning: the error is dropped.
\* The command succeeded exactly when it stopped a running container.
LxcStopPost ==
    /\ pc = "stopPost"
    /\ LxcStop
    /\ calls' = calls \cup {"lxc-stop-post"} \cup StopOutcome
    /\ pc' = AfterStop(~(inv.name \in running /\ inv.name \notin running'))
    /\ UNCHANGED <<inv, bl, ex, sc, cont, store, hostFiles, workVars, clock, logFile, builds>>

\* os.Remove(path) on tree t: the error is dropped.
OsRemove(t, p) ==
    IF Exists(t, p) THEN {Remove(t, p), t} ELSE {t}

\* os.Remove(scriptPath)
RemoveHostScript ==
    /\ pc = "rmHost"
    /\ \E t \in OsRemove(hostFiles, HostScript) :
        /\ hostFiles' = t
        /\ IF Exists(t, HostScript) THEN Fail ELSE Ok
    /\ calls' = calls \cup {"rm-host-script"}
    /\ pc' = "rmRootfs"
    /\ UNCHANGED <<inv, bl, ex, sc, cont, store, running, workVars, clock, logFile, builds>>

\* os.Remove(containerScriptPath), then on to cleanupMounts (the chroot-only
\* variant returns here).
RemoveRootfsScript ==
    /\ pc = "rmRootfs"
    /\ \E t \in OsRemove(Rootfs(inv.name), ContainerScript) :
        /\ store' = SetRootfs(inv.name, t)
        /\ IF Exists(t, ContainerScript) THEN Fail ELSE Ok
    /\ calls' = calls \cup {"rm-rootfs-script"}
    /\ pc' = IF inv.kind = "chrootbase" THEN "ret" ELSE "umount"
    /\ UNCHANGED <<inv, bl, ex, sc, cont, running, hostFiles, workVars, clock, logFile, builds>>

\* setupContainerDNS is the only code that mounts proc, sysfs and /dev into a
\* rootfs; it would leave this mark.  No function calls it, so no action of
\* the model makes the mark.
Mounted == "mount" \in calls

\* cleanupMounts: umount dev, sys, proc; nothing was mounted, errors dropped.
cleanupMounts ==
    /\ pc = "umount"
    /\ calls' = calls \cup {"umount"}
    /\ pc' = "ret"
    /\ UNCHANGED <<inv, bl, ex, sc, fsVars, workVars, clock, logFile, builds, faults>>

\* ------------------------------------------------- build: fallbackToChroot

\* cp scriptPath rootfs/setup.sh: a failure is returned.
FallbackCopy ==
    /\ pc = "fbcp"
    /\ \/ /\ store' = SetRootfs(inv.name, WriteFile(Rootfs(inv.name), SetupSh, hostFiles[HostScript]))
          /\ bl' = bl
          /\ pc' = "fbchmod"
          /\ Ok
       \/ /\ store' = store
          /\ bl' = [bl EXCEPT !.cpErr = TRUE, !.buildErr = TRUE]
          /\ pc' = "ret"
          /\ Fail
    /\ calls' = calls \cup {"fallback"}
    /\ UNCHANGED <<inv, ex, sc, cont, running, hostFiles, workVars, clock, logFile, builds>>

\* os.Chmod(containerScriptPath, 0755): a failure is only logged (the script
\* is run as "/bin/bash /setup.sh", so its mode bits decide nothing).
FallbackChmod ==
    /\ pc = "fbchmod"
    /\ pc' = "fbchroot"
    /\ UNCHANGED <<inv, bl, ex, sc, calls, fsVars, workVars, clock, logFile, builds, faults>>

\* What fallbackToChroot returns once the chroot command has returned err:
\* nil either way ("Continue anyway").
FallbackResult(err) == FALSE

\* chroot rootfs /bin/bash /setup.sh: chroot itself may fail, or the script runs.
FallbackChroot ==
    /\ pc = "fbchroot"
    /\ \/ /\ bl' = [bl EXCEPT !.scriptErr = TRUE, !.buildErr = FallbackResult(TRUE)]
          /\ sc' = sc
          /\ pc' = "ret"
          /\ Fail
       \/ /\ bl' = [bl EXCEPT !.mode = "chroot"]
          /\ sc' = StartScript(SetupSh)
          /\ pc' = "script"
          /\ Ok
    /\ calls' = calls \cup {"chroot"}
    /\ UNCHANGED <<inv, ex, fsVars, workVars, clock, logFile, builds>>

\* --------------------------------------------------- provisioning scripts

\* What is left of a script that ended at its current step with status code.
Exited(code) ==
    [payload |-> sc.payload, spc |-> IF code = 0 THEN "done" ELSE sc.spc,
     attempts |-> 0, updOk |-> FALSE]

\* A build function that returns the script's failure as its own.
ScriptExitAborts(code) ==
    IF code # 0
    THEN /\ bl' = [bl EXCEPT !.scriptErr = TRUE, !.buildErr = TRUE]
         /\ pc' = "ret"
    ELSE /\ bl' = [bl EXCEPT !.scriptErr = FALSE]
         /\ pc' = IF bl.mode = "attach" THEN AfterAttach(FALSE)
                  ELSE IF bl.mode = "chroot" THEN "ret" ELSE "rmHost"

\* How the script's exit reaches the build function: lxc-attach's or chroot's
\* err is non-nil exactly when the exit status is not 0.
ScriptExit(code) ==
    IF bl.mode = "attach"
    THEN /\ bl' = [bl EXCEPT !.scriptErr = (code # 0)]
         /\ pc' = AfterAttach(code # 0)
    ELSE IF bl.mode = "chroot"
    THEN /\ bl' = [bl EXCEPT !.scriptErr = (code # 0),
                             !.buildErr = FallbackResult(code # 0)]
         /\ pc' = "ret"
    ELSE /\ bl' = [bl EXCEPT !.scriptErr = (code # 0)]
         /\ pc' = "rmHost"

ScriptStep(next) ==
    /\ sc' = [sc EXCEPT !.spc = next]
    /\ UNCHANGED <<bl, pc>>

\* The here-document each script writes: the Ubuntu script's starts with a
\* comment line.
ResolvContent(payload) ==
    IF payload = UbuntuScript
    THEN <<"# DNS configuration for LXC container">> \o Nameservers
    ELSE Nameservers

\* cat > /etc/resolv.conf << 'EOF' ..., then the nslookup self-test whose
\* failure only prints a warning.
ScriptResolv ==
    /\ pc = "script"
    /\ sc.spc = "resolv"
    /\ store' = SetRootfs(inv.name, WriteFile(Rootfs(inv.name), ResolvConf, ResolvContent(sc.payload)))
    /\ ScriptStep("update")
    /\ calls' = calls \cup {"resolv"}
    /\ UNCHANGED <<inv, ex, cont, running, hostFiles, workVars, clock, logFile, builds, faults>>

\* The number of apt-get update attempts a script makes before giving up:
\* "for i in {1..3}" in the Java 8 script, one plain command under set -e in
\* the Ubuntu scripts.
UpdateTries(payload) == IF payload = Java8Script THEN UpdateAttempts ELSE 1

\* A loop without the break, and a script without the loop.
RetriesAfterSuccess(payload, n, ok) == n < UpdateTries(payload)
NeverRetries(payload, n, ok) == FALSE

\* A loop without the attempt count: "until apt-get update; do sleep 5; done".
RetryWhileFailing(payload, n, ok) == ~ok

\* After attempt number n ended with ok: does the script make another attempt?
\* (if apt-get update; then ... break; else ... sleep 5; fi)
UpdateRetries(payload, n, ok) == ~ok /\ n < UpdateTries(payload)

\* After the last attempt: does the script go on?  Java 8: exit 1 when
\* UPDATE_SUCCESS is false.  Ubuntu: set -e ends the script on the failure.
UpdatePassed(payload, success) == success

\* The step after the package-index refresh.
AfterUpdate(payload) == IF payload = Java8Script THEN "install" ELSE "upgrade"

\* One apt-get update attempt.  An unreachable package index stays
\* unreachable: only the first failed attempt counts as a failure.
ScriptUpdate ==
    /\ pc = "script"
    /\ sc.spc = "update"
    /\ \E ok \in BOOLEAN :
        /\ IF ok \/ sc.attempts > 0 THEN Ok ELSE Fail
        /\ LET n == sc.attempts + 1
               cur == [sc EXCEPT !.attempts = n, !.updOk = sc.updOk \/ ok]
           IN  IF UpdateRetries(sc.payload, n, ok)
               THEN /\ sc' = cur
                    /\ UNCHANGED <<bl, pc>>
               ELSE IF UpdatePassed(sc.payload, cur.updOk)
               THEN /\ sc' = [cur EXCEPT !.spc = AfterUpdate(sc.payload)]
                    /\ UNCHANGED <<bl, pc>>
               ELSE /\ sc' = cur
                    /\ ScriptExit(1)
    /\ calls' = calls \cup {"apt-update"}
    /\ UNCHANGED <<inv, ex, fsVars, workVars, clock, logFile, builds>>

\* Does a failing command end the script?  "set -e" in the Ubuntu scripts;
\* removed from the Java 8 script.
ErrExit(payload) == payload # Java8Script

\* apt-get upgrade -y (Ubuntu scripts only).
ScriptUpgrade ==
    /\ pc = "script"
    /\ sc.spc = "upgrade"
    /\ \/ ScriptStep("install") /\ Ok
       \/ sc' = Exited(1) /\ ScriptExit(1) /\ Fail
    /\ calls' = calls \cup {"apt-upgrade"}
    /\ UNCHANGED <<inv, ex, fsVars, workVars, clock, logFile, builds>>

\* What the script's apt-get install puts into the rootfs.
Installed(payload) ==
    IF payload = Java8Script THEN {Jvm, JavaHome, Java, Javac} ELSE {Curl}

AddFiles(t, ps) == [q \in ps |-> <<"pkg">>] @@ t

\* apt-get install: both scripts end on its failure (exit 1, or set -e).
ScriptInstall ==
    /\ pc = "script"
    /\ sc.spc = "install"
    /\ \/ /\ store' = SetRootfs(inv.name, AddFiles(Rootfs(inv.name), Installed(sc.payload)))
          /\ ScriptStep("env")
          /\ Ok
       \/ /\ store' = store
          /\ sc' = Exited(1)
          /\ ScriptExit(1)
          /\ Fail
    /\ calls' = calls \cup {"apt-install"}
    /\ UNCHANGED <<inv, ex, cont, running, hostFiles, workVars, clock, logFile, builds>>

\* The environment step.  Java 8: if [ -d $JAVA_HOME_PATH ] then append one
\* line to /etc/environment and two to /etc/bash.bashrc.  Ubuntu: append
\* DEBIAN_FRONTEND to /etc/environment, mkdir -p /app.
ScriptEnvTree(payload, t) ==
    IF payload = Java8Script
    THEN IF Exists(t, JavaHome)
         THEN AppendLine(AppendLine(AppendLine(t, EtcEnvironment, "JAVA_HOME"),
                                    BashRc, "export JAVA_HOME"),
                         BashRc, "export PATH")
         ELSE t
    ELSE LET e == AppendLine(t, EtcEnvironment, "DEBIAN_FRONTEND=noninteractive")
         IN  IF Exists(e, AppDir) THEN e ELSE WriteFile(e, AppDir, <<>>)

ScriptEnv ==
    /\ pc = "script"
    /\ sc.spc = "env"
    /\ store' = SetRootfs(inv.name, ScriptEnvTree(sc.payload, Rootfs(inv.name)))
    /\ ScriptStep("clean")
    /\ UNCHANGED <<inv, ex, calls, cont, running, hostFiles, workVars, clock, logFile, builds, faults>>

\* apt-get autoremove/autoclean/clean and the closing echo: a failure ends an
\* Ubuntu script with its status; the Java 8 script goes on to the echo.
ScriptClean ==
    /\ pc = "script"
    /\ sc.spc = "clean"
    /\ \/ sc' = Exited(0) /\ ScriptExit(0) /\ Ok
       \/ ErrExit(sc.payload) /\ sc' = Exited(1) /\ ScriptExit(1) /\ Fail
    /\ UNCHANGED <<inv, ex, calls, fsVars, workVars, clock, logFile, builds>>

\* ------------------------------------ the chroot-only base build (lxc.go)

\* chroot rootfs /bin/bash -c "$(cat scriptPath)": exec passes the text
\* unexpanded, the shell inside the chroot expands it, cat finds no such path
\* there, and the command ends with cat's status.  It never runs the script.
ChrootInline ==
    /\ pc = "inline"
    /\ calls' = calls \cup {"chroot-inline"}
    /\ pc' = "cpAlt"
    /\ UNCHANGED <<inv, bl, ex, sc, fsVars, workVars, clock, logFile, builds, faults>>

\* cp scriptPath rootfs/setup.sh; only on success is the script run.
CopyAlt ==
    /\ pc = "cpAlt"
    /\ \/ /\ store' = SetRootfs(inv.name, WriteFile(Rootfs(inv.name), SetupSh, hostFiles[HostScript]))
          /\ bl' = bl
          /\ pc' = "chrootAlt"
          /\ Ok
       \/ /\ store' = store
          /\ bl' = [bl EXCEPT !.cpErr = TRUE]
          /\ pc' = "rmHost"
          /\ Fail
    /\ UNCHANGED <<inv, ex, sc, calls, cont, running, hostFiles, workVars, clock, logFile, builds>>

\* chroot rootfs /bin/bash /setup.sh: a failure is only logged.
ChrootAlt ==
    /\ pc = "chrootAlt"
    /\ \/ /\ bl' = [bl EXCEPT !.scriptErr = TRUE]
          /\ sc' = sc
          /\ pc' = "rmHost"
          /\ Fail
       \/ /\ bl' = [bl EXCEPT !.mode = "alt"]
          /\ sc' = StartScript(SetupSh)
          /\ pc' = "script"
          /\ Ok
    /\ calls' = calls \cup {"chroot-alt"}
    /\ UNCHANGED <<inv, ex, fsVars, workVars, clock, logFile, builds>>

\* lxc.go's RunUbuntuContainer
RunUbuntuContainerChroot == EnterBuild("chrootbase", UbuntuBase, "")

\* ------------------------------------------------------------------ export

\* The entry point after the build function returned: an error, and the
\* chroot-only variant, end the invocation without an export.
BuildReturn ==
    /\ pc = "ret"
    /\ pc' = IF bl.buildErr \/ inv.kind = "chrootbase" THEN "close" ELSE "export"
    /\ UNCHANGED <<inv, bl, ex, sc, calls, fsVars, workVars, clock, logFile, builds, faults>>

\* time.Now(): the clock has not moved, or has moved on by a second.
Now == {t \in {clock, clock + 1} : t <= MaxClock}

\* parentLayer := "ubuntu-base" of exportLayeredContainer.
ExportParent == UbuntuBase

\* A dispatch that never looks for the parent's directory.
DiffWheneverLayered(containerName) == containerName # UbuntuBase

\* exportContainerAsTarGz / exportLayeredContainer: which export runs.
TakesDiffPath(containerName) ==
    containerName # UbuntuBase /\ dirExists(ExportParent)

\* The dispatch, and timestamp := time.Now().Format(...) of the export chosen.
exportContainerAsTarGz ==
    /\ pc = "export"
    /\ \E ts \in Now :
        /\ ex' = [ex EXCEPT !.diff = TakesDiffPath(inv.name), !.ts = ts]
        /\ clock' = ts
    /\ calls' = calls \cup {"export"}
    /\ pc' = IF TakesDiffPath(inv.name) THEN "stat" ELSE "proxmox"
    /\ UNCHANGED <<inv, bl, sc, fsVars, workVars, logFile, builds, faults>>

TarGzName ==
    IF ex.diff THEN LayerArchiveName(inv.name, ex.ts) ELSE BaseArchiveName(ex.ts)

SymlinkPath == IF ex.diff THEN LayerLatest(inv.name) ELSE BaseLatest

\* A createProxmoxMetadata that leaves /etc/os-release as the template made it.
SkipOsRelease(t) == t

\* The two files createProxmoxMetadata writes.
WriteOsRelease(t) == WriteFile(t, OsRelease, <<"Ubuntu 22.04.5 LTS">>)
WriteLsbRelease(t) == WriteFile(t, LsbRelease, <<"DISTRIB_ID=Ubuntu">>)

\* createProxmoxMetadata: the first failing write returns; the caller only
\* logs the error.
createProxmoxMetadata ==
    /\ pc = "proxmox"
    /\ \/ /\ store' = SetRootfs(inv.name, WriteLsbRelease(WriteOsRelease(Rootfs(inv.name))))
          /\ calls' = calls \cup {"os-release", "lsb-release"}
          /\ ex' = ex
          /\ Ok
       \/ /\ store' = SetRootfs(inv.name, WriteOsRelease(Rootfs(inv.name)))
          /\ calls' = calls \cup {"os-release", "lsb-release"}
          /\ ex' = [ex EXCEPT !.proxmoxErr = TRUE]
          /\ Fail
       \/ /\ store' = store
          /\ calls' = calls \cup {"os-release"}
          /\ ex' = [ex EXCEPT !.proxmoxErr = TRUE]
          /\ Fail
    /\ pc' = "tarBase"
    /\ UNCHANGED <<inv, bl, sc, cont, running, hostFiles, workVars, clock, logFile, builds>>

\* The file tar -czf writes: the member arguments, what it packed, and
\* whether the archive is whole.
Archive(args, tree, complete) == [args |-> args, tree |-> tree, complete |-> complete]

\* An export that repoints the symlink whatever tar returned.
RepointAnyway == "rmlink"

\* Where the export goes when tar failed: it returns the error.
AfterTarFailure == "expret"

\* l.runCommand("tar", ...): a failure may leave a truncated file behind.
Tar(args, packed) ==
    /\ \/ /\ archives' = WriteFile(archives, TarGzName, Archive(args, packed, TRUE))
          /\ ex' = [ex EXCEPT !.tarOk = TRUE]
          /\ pc' = "rmlink"
          /\ Ok
       \/ /\ \/ archives' = archives
             \/ archives' = WriteFile(archives, TarGzName, Archive(args, EmptyTree, FALSE))
          /\ ex' = [ex EXCEPT !.exportErr = TRUE]
          /\ pc' = AfterTarFailure
          /\ Fail
    /\ calls' = calls \cup {"tar"}
    /\ UNCHANGED <<inv, bl, sc, fsVars, latest, meta, clock, logFile, builds>>

\* What tar packs of the tree t for its member arguments: "." is all of it, a
\* path is the path with what is under it.
Packed(args, t) ==
    IF "." \in args THEN t ELSE Restrict(t, UNION {Under(a) : a \in args})

\* A base export that packs the layer export's candidates.
BaseAllowList == {Jvm, EtcEnvironment, BashRc, Java, Javac}

\* The member argument of the base export's tar.
BaseMembers == {"."}

\* tar -czf tarGzPath -C rootfsPath .
TarBase ==
    /\ pc = "tarBase"
    /\ Tar(BaseMembers, Packed(BaseMembers, Rootfs(inv.name)))

\* A loop that appends every candidate without the stat.
AllPossibleFiles(t) == possibleFiles

\* The possibleFiles a stat finds in tree t, in order.
FilesFound(t) == SelectSeq(possibleFiles, LAMBDA f : Exists(t, f))

\* The stat loop and the len(filesToTar) == 0 return.
StatFiles ==
    /\ pc = "stat"
    /\ LET found == FilesFound(Rootfs(inv.name))
       IN  IF Len(found) = 0
           THEN /\ ex' = [ex EXCEPT !.filesToTar = found, !.exportErr = TRUE]
                /\ pc' = "expret"
           ELSE /\ ex' = [ex EXCEPT !.filesToTar = found]
                /\ pc' = "tarDiff"
    /\ calls' = calls \cup {"stat"}
    /\ UNCHANGED <<inv, bl, sc, fsVars, workVars, clock, logFile, builds, faults>>

Range(f) == {f[x] : x \in DOMAIN f}

\* tar -czf tarGzPath -C containerRootfs filesToTar...
TarDiff ==
    /\ pc = "tarDiff"
    /\ Tar(Range(ex.filesToTar),
           Restrict(Rootfs(inv.name), UNION {Under(f) : f \in Range(ex.filesToTar)}))

\* os.Remove(symlinkPath): the error is dropped.
RemoveLink ==
    /\ pc = "rmlink"
    /\ \E t \in OsRemove(latest, SymlinkPath) :
        /\ latest' = t
        /\ IF Exists(t, SymlinkPath) THEN Fail ELSE Ok
    /\ calls' = calls \cup {"rm-link"}
    /\ pc' = "symlink"
    /\ UNCHANGED <<inv, bl, ex, sc, fsVars, archives, meta, clock, logFile, builds>>

\* The base export's target used in both export paths.
BaseTarget == BaseArchiveName(ex.ts)

\* The first argument of os.Symlink: tarGzName.
SymlinkTarget == TarGzName

\* os.Symlink(tarGzName, symlinkPath): fails when the path is taken; a
\* failure is only logged.
Symlink ==
    /\ pc = "symlink"
    /\ \/ /\ ~Exists(latest, SymlinkPath)
          /\ latest' = WriteFile(latest, SymlinkPath, SymlinkTarget)
          /\ ex' = ex
          /\ Ok
       \/ /\ latest' = latest
          /\ ex' = [ex EXCEPT !.linkErr = TRUE]
          /\ IF Exists(latest, SymlinkPath) THEN Ok ELSE Fail
    /\ calls' = calls \cup {"symlink"}
    /\ pc' = IF ex.diff THEN "layermeta" ELSE "expret"
    /\ UNCHANGED <<inv, bl, sc, fsVars, archives, meta, clock, logFile, builds>>

\* createLayerMetadata: the record, and os.WriteFile whose error is dropped.
createLayerMetadata(layerName, parentLayer, archiveName) ==
    \E created \in Now :
        /\ clock' = created
        /\ \/ /\ meta' = WriteFile(meta, layerName,
                           [layer_name |-> layerName, parent_layer |-> parentLayer,
                            archive |-> archiveName, created |-> created,
                            type |-> "diff_layer"])
              /\ Ok
           \/ /\ meta' = meta
              /\ Fail

LayerMetadata ==
    /\ pc = "layermeta"
    /\ createLayerMetadata(inv.name, ExportParent, TarGzName)
    /\ calls' = calls \cup {"layer-metadata"}
    /\ pc' = "expret"
    /\ UNCHANGED <<inv, bl, ex, sc, fsVars, archives, latest, logFile, builds>>

\* The export returned; the entry point prints its error and returns.
ExportReturn ==
    /\ pc = "expret"
    /\ pc' = "close"
    /\ UNCHANGED <<inv, bl, ex, sc, calls, fsVars, workVars, clock, logFile, builds, faults>>

\* An entry point that returns without the deferred Close.
ReturnWithoutClose ==
    /\ pc = "close"
    /\ pc' = "idle"
    /\ inv' = NoInv
    /\ bl' = NoBuild
    /\ ex' = NoExport
    /\ sc' = NoScript
    /\ calls' = {}
    /\ UNCHANGED <<fsVars, workVars, clock, logFile, builds, faults>>

\* defer builder.Close(): closes the log file unless it is nil.  The
\* invocation's locals are gone.
Close ==
    /\ pc = "close"
    /\ logFile' = IF logFile = "open" THEN "closed" ELSE logFile
    /\ pc' = "idle"
    /\ inv' = NoInv
    /\ bl' = NoBuild
    /\ ex' = NoExport
    /\ sc' = NoScript
    /\ calls' = {}
    /\ UNCHANGED <<fsVars, workVars, clock, builds, faults>>

Next ==
    \/ RunUbuntuContainer
    \/ RunUbuntuContainerChroot
    \/ RunJava8Container
    \/ LxcStopPre
    \/ LxcDestroyPre
    \/ Create
    \/ RenameConfig
    \/ appendToConfig
    \/ WriteScript
    \/ LxcStart
    \/ PollReady
    \/ AttachDNS
    \/ CopyScript
    \/ StopAfterCopyFailure
    \/ AttachScript
    \/ Debug
    \/ VerifyJava
    \/ LxcStopPost
    \/ RemoveHostScript
    \/ RemoveRootfsScript
    \/ cleanupMounts
    \/ FallbackCopy
    \/ FallbackChmod
    \/ FallbackChroot
    \/ ChrootInline
    \/ CopyAlt
    \/ ChrootAlt
    \/ ScriptResolv
    \/ ScriptUpdate
    \/ ScriptUpgrade
    \/ ScriptInstall
    \/ ScriptEnv
    \/ ScriptClean
    \/ BuildReturn
    \/ exportContainerAsTarGz
    \/ createProxmoxMetadata
    \/ TarBase
    \/ StatFiles
    \/ TarDiff
    \/ RemoveLink
    \/ Symlink
    \/ LayerMetadata
    \/ ExportReturn
    \/ Close

Spec == Init /\ [][Next]_vars

\* A work directory in which the base image has been built and exported once
\* (a run of RunUbuntuContainer in which nothing failed, on the stock template).
BuiltBaseTree ==
    WriteLsbRelease(WriteOsRelease(
        ScriptEnvTree(UbuntuScript,
            AddFiles(WriteFile(StockTree, ResolvConf, ResolvContent(UbuntuScript)),
                     Installed(UbuntuScript)))))

BaseBuilt ==
    /\ cont = [n \in Names |->
                 IF n = UbuntuBase
                 THEN [exists |-> TRUE, rootfs |-> 1, nested |-> FALSE,
                       uts |-> UbuntuBase, appended |-> TRUE]
                 ELSE NoDir]
    /\ store = [s \in Stores |-> IF s = 1 THEN BuiltBaseTree ELSE EmptyTree]
    /\ running = {}
    /\ hostFiles = EmptyTree
    /\ archives = (BaseArchiveName(0) :> Archive({"."}, BuiltBaseTree, TRUE))
    /\ latest = (BaseLatest :> BaseArchiveName(0))
    /\ meta = EmptyTree
    /\ logFile = "closed"

InitBuilt ==
    /\ pc = "idle"
    /\ inv = NoInv
    /\ bl = NoBuild
    /\ ex = NoExport
    /\ sc = NoScript
    /\ calls = {}
    /\ BaseBuilt
    /\ clock = 0
    /\ builds = 0
    /\ faults = 0

\* Builds in a work directory that already holds the base image.
SpecBuilt == InitBuilt /\ [][Next]_vars

\* ------------------------------------------------------------------ claims

C2_Original ==
    (pc = "close" /\ "export" \in calls /\ ~ex.exportErr) =>
        /\ Exists(latest, SymlinkPath)
        /\ latest[SymlinkPath] = TarGzName
        /\ Exists(archives, TarGzName)

\* C2 amended: after an export that returned nil and whose os.Symlink call did
\* not fail, the symlink exists and resolves to the whole archive this call
\* wrote.
C2_LatestUnlessSymlinkFailed ==
    (pc = "close" /\ "export" \in calls /\ ~ex.exportErr /\ ~ex.linkErr) =>
        /\ Exists(latest, SymlinkPath)
        /\ latest[SymlinkPath] = TarGzName
        /\ Exists(archives, TarGzName)
        /\ archives[TarGzName].complete

\* A second export repointed a symlink an earlier one had left.
C2_Witness ==
    /\ pc = "close"
    /\ "symlink" \in calls
    /\ ~ex.exportErr
    /\ ~ex.linkErr
    /\ builds = 2
    /\ Cardinality(DOMAIN archives) = 2

\* C3: every step that changes a "latest" symlink (its removal, its creation)
\* is taken by an export whose tar has succeeded; so a failed tar leaves the
\* symlinks as they were.
C3_SymlinkOnlyAfterTar == [][latest' # latest => ex.tarOk]_vars

\* An export whose tar failed returns with the earlier symlink still in place.
C3_Witness ==
    /\ pc = "close"
    /\ "tar" \in calls
    /\ ex.exportErr
    /\ Exists(latest, SymlinkPath)
    /\ latest[SymlinkPath] # TarGzName

\* C4: a base build whose lxc-start failed, and whose copy of the script into
\* the rootfs did not, has run the script through chroot, returns no error
\* whatever the script's status, and goes on to the base export, which fails
\* only when tar fails.
C4_StartFailureFallsBack ==
    (pc = "close" /\ inv.kind = "base" /\ "lxc-start" \in calls /\ ~bl.startOk /\ ~bl.cpErr) =>
        /\ "chroot" \in calls
        /\ ~bl.buildErr
        /\ "tar" \in calls
        /\ ~ex.diff
        /\ (ex.exportErr => ~ex.tarOk)

\* A base build that fell back to chroot and exported its archive.
C4_Witness ==
    /\ pc = "close"
    /\ inv.kind = "base"
    /\ "lxc-start" \in calls
    /\ ~bl.startOk
    /\ "chroot" \in calls
    /\ ex.tarOk
    /\ ~ex.exportErr

\* C5 as stated: when a build function returns after it wrote the script, it
\* has attempted to remove the script from the container directory and from
\* the rootfs.
C5_Original ==
    (pc = "ret" /\ bl.written) => {"rm-host-script", "rm-rootfs-script"} \subseteq calls

\* C6: in a layered build whose parent directory does not exist, nothing is
\* copied from a parent, the container is made by lxc-create, the export is the
\* full one (no stat loop, no diff archive), and the export fails only when
\* tar fails.
C6_MissingParentDegrades ==
    (inv.kind = "layer" /\ ~dirExists(inv.parent)) =>
        /\ "cp-r" \notin calls
        /\ (pc \notin {"stopPre", "destroyPre", "create"} => "lxc-create" \in calls)
        /\ ("export" \in calls => ~ex.diff /\ "stat" \notin calls)
        /\ (ex.tarOk => archives[TarGzName].args = {"."})
        /\ (ex.exportErr => "tar" \in calls /\ ~ex.tarOk)

\* A layered build without its parent exported the whole rootfs.
C6_Witness ==
    /\ pc = "close"
    /\ inv.kind = "layer"
    /\ ~dirExists(inv.parent)
    /\ ex.tarOk
    /\ ~ex.exportErr
    /\ archives[TarGzName].tree = Rootfs(inv.name)

\* C7: while the parent's and the layer's directories both exist, no step
\* changes both rootfs trees: a write to one leaves the other as it was.
C7_RootfsIndependent ==
    [][(/\ dirExists(UbuntuBase) /\ dirExists(UbuntuJava8)
        /\ dirExists(UbuntuBase)' /\ dirExists(UbuntuJava8)')
       => (Rootfs(UbuntuBase)' = Rootfs(UbuntuBase) \/ Rootfs(UbuntuJava8)' = Rootfs(UbuntuJava8))]_vars

\* The layer was cloned from the built base (it holds the base's packages and
\* has Java on top), the base has since been destroyed and created anew, and
\* the layer still holds what it held.
C7_Witness ==
    /\ inv.kind = "base"
    /\ dirExists(UbuntuBase)
    /\ dirExists(UbuntuJava8)
    /\ ~Exists(Rootfs(UbuntuBase), Curl)
    /\ Exists(Rootfs(UbuntuJava8), Curl)
    /\ Exists(Rootfs(UbuntuJava8), Java)

\* C8: every apt-get update attempt of a script is made while no earlier
\* attempt of that run has succeeded, and is at most the third.
C8_AtMostThreeUpdates ==
    [][sc'.attempts = sc.attempts + 1 => (~sc.updOk /\ sc'.attempts <= UpdateAttempts)]_vars

\* The second attempt succeeded and the script went on without a third.
C8_Witness ==
    /\ pc = "script"
    /\ sc.spc = "install"
    /\ sc.attempts = 2
    /\ sc.updOk

C10_Original ==
    (bl.startOk /\ ~bl.ready /\ pc # "poll") =>
        ("attach-dns" \notin calls /\ "attach-script" \notin calls)

\* C11 as stated: in every build, the script is executed under chroot only
\* after an lxc-start of the container has failed.
C11_Original ==
    ("chroot" \in calls \/ "chroot-alt" \in calls) =>
        ("lxc-start" \in calls /\ ~bl.startOk)

\* C11 amended: in the builds of the live-environment builder the script is
\* run under chroot only after lxc-start failed, by lxc-attach only after
\* lxc-start succeeded, and never both ways; the chroot-only builder never
\* starts or attaches to a container.
C11_ModesExclusive ==
    /\ inv.kind # "chrootbase" =>
          /\ "chroot" \in calls => ("lxc-start" \in calls /\ ~bl.startOk)
          /\ "attach-script" \in calls => bl.startOk
          /\ ~("chroot" \in calls /\ "attach-script" \in calls)
          /\ "chroot-alt" \notin calls
    /\ inv.kind = "chrootbase" =>
          /\ "lxc-start" \notin calls
          /\ "attach-script" \notin calls
          /\ "chroot" \notin calls

\* A layered build ran its script under chroot after its start had failed.
C11_Witness ==
    /\ inv.kind = "layer"
    /\ "lxc-start" \in calls
    /\ ~bl.startOk
    /\ "chroot" \in calls
    /\ bl.mode = "chroot"
    /\ sc.spc = "done"

\* C12 as stated: a failed pre-build stop or destroy never changes what the
\* build returns.  The one way it could: the container's directory is still
\* in place, lxc-create fails on it, and the build returns that error.
C12_Original ==
    (pc = "ret" /\ bl.buildErr /\ "lxc-create" \in calls /\ "write-script" \notin calls) =>
        ~dirExists(inv.name)

\* C12 amended: the build function never looks at the result of a stop,
\* destroy or unmount command: after each of them it is at the same next step
\* with the same locals whatever the command returned, and a build function
\* that returned nil is followed by the export.
C12_CleanupErrorsDropped ==
    [][/\ pc = "stopPre" => (pc' = "destroyPre" /\ bl' = bl)
       /\ pc = "destroyPre" => (pc' = "create" /\ bl' = bl)
       /\ pc = "stopPost" => (pc' = "rmHost" /\ bl' = bl)
       /\ pc = "umount" => (pc' = "ret" /\ bl' = bl)
       /\ (pc = "ret" /\ ~bl.buildErr /\ inv.kind # "chrootbase") => pc' = "export"]_vars

\* The post-provisioning lxc-stop failed (the container is still running), the
\* build returned nil and the export was attempted.
C12_Witness ==
    /\ "lxc-stop-post" \in calls
    /\ inv.name \in running
    /\ ~bl.buildErr
    /\ "export" \in calls

ScriptTree(payload, t) ==
    ScriptEnvTree(payload,
        AddFiles(IF payload = ChrootScript THEN t
                 ELSE WriteFile(t, ResolvConf, ResolvContent(payload)),
                 Installed(payload)))

\* The starting trees: every part of a provisioned tree.
RerunFull ==
    StockTree @@ (ResolvConf :> <<"nameserver 127.0.0.53">>) @@ (AppDir :> <<>>)
        @@ (Curl :> <<"pkg">>)

RerunTrees == {Restrict(RerunFull, ps) : ps \in SUBSET DOMAIN RerunFull}

Scripts == {UbuntuScript, Java8Script, ChrootScript}

InitRerun ==
    /\ pc = "run0"
    /\ inv = NoInv
    /\ bl = NoBuild
    /\ ex = NoExport
    /\ \E p \in Scripts : sc = [NoScript EXCEPT !.payload = p]
    /\ calls = {}
    /\ cont = [n \in Names |->
                 IF n = UbuntuBase
                 THEN [exists |-> TRUE, rootfs |-> 1, nested |-> FALSE,
                       uts |-> UbuntuBase, appended |-> TRUE]
                 ELSE NoDir]
    /\ \E t \in RerunTrees : store = [s \in Stores |-> IF s = 1 THEN t ELSE EmptyTree]
    /\ running = {}
    /\ hostFiles = EmptyTree
    /\ archives = EmptyTree
    /\ latest = EmptyTree
    /\ meta = EmptyTree
    /\ clock = 0
    /\ logFile = "none"
    /\ builds = 0
    /\ faults = 0

\* /bin/bash /tmp/setup.sh, run to its end.
RunScript ==
    /\ pc \in {"run0", "run1"}
    /\ store' = SetRootfs(UbuntuBase, ScriptTree(sc.payload, Rootfs(UbuntuBase)))
    /\ pc' = IF pc = "run0" THEN "run1" ELSE "run2"
    /\ UNCHANGED <<inv, bl, ex, sc, calls, cont, running, hostFiles, workVars,
                   clock, logFile, builds, faults>>

SpecRerun == InitRerun /\ [][RunScript]_vars

\* C14: the second of two runs of a script in a row, every command
\* succeeding, leaves the target tree as the first run left it.
C14_Original ==
    [][pc = "run1" => Rootfs(UbuntuBase)' = Rootfs(UbuntuBase)]_vars

\* C15: when a diff export has returned success, the work directory holds the
\* layer's metadata record naming the archive of this export and the parent;
\* a base export does not write one.
C15_Original ==
    (pc = "close" /\ "export" \in calls /\ ~ex.exportErr) =>
        IF ex.diff
        THEN /\ Exists(meta, inv.name)
             /\ meta[inv.name].archive = TarGzName
             /\ meta[inv.name].parent_layer = ExportParent
        ELSE "layer-metadata" \notin calls

C18_Original ==
    (ex.diff /\ ex.tarOk) =>
        \A p \in DOMAIN archives[TarGzName].tree :
            ~(/\ Exists(Rootfs(ExportParent), p)
              /\ Rootfs(ExportParent)[p] = archives[TarGzName].tree[p])

\* C19: between invocations the log file is not open (an invocation that
\* opened it has closed it on whatever path it returned), and while an
\* invocation runs, and so may write a log line, the file is not closed.
C19_LogClosedOnReturn ==
    /\ pc = "idle" => logFile \in {"none", "nil", "closed"}
    /\ pc # "idle" => logFile \in {"open", "nil"}

\* An invocation whose build failed (lxc-create made no container) has
\* returned, and its log file is closed.
C19_Witness ==
    /\ pc = "idle"
    /\ builds = 1
    /\ faults = 1
    /\ logFile = "closed"
    /\ \A n \in Names : ~dirExists(n)
    /\ archives = EmptyTree

\* C20: whenever an invocation has run apt-get update in its target, it has
\* written the resolver configuration there before (the script's own first
\* step, or the attach command that writes /etc/resolv.conf).
C20_Original ==
    "apt-update" \in calls => ("resolv" \in calls \/ "attach-dns" \in calls)

\* C21: a script run under chroot runs in a rootfs into which /proc, /sys and
\* /dev have been mounted, and a build that mounted returns only after the
\* unmount.
C21_Original ==
    /\ ("chroot" \in calls \/ "chroot-alt" \in calls) => Mounted
    /\ (pc = "ret" /\ Mounted) => "umount" \in calls

\* ------------------------------------- the config rewrite of a cloned layer

\* A config file is a sequence of entries; an entry's value is a text, held as
\* a sequence of pieces so that a container name inside it is one piece.
ConfigPath(name) == [dir |-> name, file |-> "config"]

\* The keys whose values say which container this is.
IdentityKeys == {"lxc.uts.name", "lxc.rootfs.path"}

OtherKeys == {"lxc.mount.entry", "lxc.net.0.link", "lxc.include"}

Pieces == {UbuntuBase, UbuntuJava8, "/srv/", "lxcbr0"}

MaxPieces == 2

Texts == UNION {[1 .. n -> Pieces] : n \in 1 .. MaxPieces}

\* The configs lxc-create may have written for ubuntu-base: its two identity
\* entries and one entry taken from the host's defaults.
ParentConfigs ==
    {<<[key |-> "lxc.uts.name", value |-> <<UbuntuBase>>],
       [key |-> "lxc.rootfs.path", value |-> <<"dir:", UbuntuBase, "/rootfs">>],
       [key |-> k, value |-> v]>> : k \in OtherKeys, v \in Texts}

\* strings.ReplaceAll over the whole file content.
ReplaceAllText(content, parentLayer, containerName) ==
    [i \in DOMAIN content |->
        [content[i] EXCEPT !.value =
            [j \in DOMAIN content[i].value |->
                ReplaceAll(content[i].value[j], parentLayer, containerName)]]]

InitConfig ==
    /\ pc = "cfgCopy"
    /\ inv = [kind |-> "layer", name |-> UbuntuJava8, parent |-> UbuntuBase]
    /\ bl = NoBuild
    /\ ex = NoExport
    /\ sc = NoScript
    /\ calls = {}
    /\ cont = [n \in Names |-> NoDir]
    /\ store = [s \in Stores |-> EmptyTree]
    /\ running = {}
    /\ \E c \in ParentConfigs : hostFiles = (ConfigPath(UbuntuBase) :> c)
    /\ archives = EmptyTree
    /\ latest = EmptyTree
    /\ meta = EmptyTree
    /\ clock = 0
    /\ logFile = "open"
    /\ builds = 0
    /\ faults = 0

\* cp -r parentPath newPath, as far as the config file goes.
CopyConfig ==
    /\ pc = "cfgCopy"
    /\ hostFiles' = WriteFile(hostFiles, ConfigPath(inv.name), hostFiles[ConfigPath(inv.parent)])
    /\ pc' = "cfgRewrite"
    /\ UNCHANGED <<inv, bl, ex, sc, calls, cont, store, running, workVars,
                   clock, logFile, builds, faults>>

\* The read, the replacement, and the write when the content changed.
RewriteConfig ==
    /\ pc = "cfgRewrite"
    /\ LET newContent == hostFiles[ConfigPath(inv.name)]
           updatedContent == ReplaceAllText(newContent, inv.parent, inv.name)
       IN  hostFiles' = IF updatedContent # newContent
                        THEN WriteFile(hostFiles, ConfigPath(inv.name), updatedContent)
                        ELSE hostFiles
    /\ pc' = "cfgDone"
    /\ UNCHANGED <<inv, bl, ex, sc, calls, cont, store, running, workVars,
                   clock, logFile, builds, faults>>

SpecConfig == InitConfig /\ [][CopyConfig \/ RewriteConfig]_vars

\* C22: after the clone, every entry of the layer's config whose key is not an
\* identity key has the value it has in the parent's config.
C22_Original ==
    pc = "cfgDone" =>
        \A i \in DOMAIN hostFiles[ConfigPath(UbuntuJava8)] :
            hostFiles[ConfigPath(UbuntuJava8)][i].key \notin IdentityKeys =>
                hostFiles[ConfigPath(UbuntuJava8)][i].value
                    = hostFiles[ConfigPath(UbuntuBase)][i].value

\* ------------------------------------------------------------ termination

\* One step of a running invocation: a command that returns, or a statement.
Step == pc # "idle" /\ Next

\* Every external command returns: a running invocation keeps taking steps.
SpecLive == Init /\ [][Next]_vars /\ WF_vars(Step)

\* C23: the readiness poll and the package-index refresh never go past their
\* attempt counts, and every invocation that has started returns.
C23_Terminates ==
    /\ [](bl.i < ReadyAttempts /\ sc.attempts <= UpdateTries(sc.payload))
    /\ (pc # "idle") ~> (pc = "idle")

\* An invocation came to its end after the readiness poll had used up all of
\* its attempts without the container ever reporting.
C23_Witness ==
    /\ pc = "close"
    /\ bl.startOk
    /\ ~bl.ready
    /\ "lxc-info" \in calls
    /\ "attach-dns" \in calls

\* C24: once lxc-start has succeeded the build does not leave the readiness
\* loop without an lxc-info check, the loop makes at most ReadyAttempts of
\* them, it is not in the loop once a check has succeeded, and the one-second
\* sleep is first made by a pass whose check failed.
C24_PollBounded ==
    /\ [](/\ (bl.startOk /\ pc # "poll") => "lxc-info" \in calls
          /\ bl.i < ReadyAttempts
          /\ bl.ready => pc # "poll"
          /\ "sleep" \in calls => "lxc-info" \in calls)
    /\ [][/\ pc = "poll" => "lxc-info" \in calls'
          /\ (pc = "poll" /\ pc' = "poll") => (~bl'.ready /\ bl'.i = bl.i + 1)
          /\ ("sleep" \in calls' /\ "sleep" \notin calls) => (pc = "poll" /\ ~bl'.ready)]_vars

\* The loop ended by a successful check that followed failed ones.
C24_Witness ==
    /\ pc = "dns"
    /\ bl.startOk
    /\ bl.ready
    /\ "sleep" \in calls

\* The positions of a build between a successful lxc-start and its lxc-stop.
InContainer ==
    {"poll", "dns", "cp", "stopAbort", "attach", "script", "debug", "verify", "stopPost"}

\* C25: a build whose lxc-start succeeded is past the live part of the build
\* function only after it has issued lxc-stop.
C25_StopBeforeReturn ==
    (bl.startOk /\ pc \notin InContainer) => "lxc-stop-post" \in calls

\* The build returns the copy error, having issued the stop.
C25_Witness ==
    /\ pc = "ret"
    /\ bl.startOk
    /\ bl.cpErr
    /\ bl.buildErr
    /\ "lxc-stop-post" \in calls

\* The positions at which the export is about to run tar.
TarPcs == {"tarBase", "tarDiff"}

\* C26: when tar is about to run, the build has issued lxc-stop for a
\* container it started, and the container is running only if an lxc-stop of
\* this build failed and left it running.
C26_RunningOnlyAfterFailedStop ==
    pc \in TarPcs =>
        /\ bl.startOk => "lxc-stop-post" \in calls
        /\ inv.name \in running => "stop-left-running" \in calls

\* C26 as stated: when tar is about to run the container is not running.
C26_Original ==
    pc \in TarPcs => inv.name \notin running

\* tar is about to pack the rootfs of a container the build started and
\* stopped.
C26_Witness ==
    /\ pc \in TarPcs
    /\ bl.startOk
    /\ "lxc-stop-post" \in calls
    /\ inv.name \notin running

\* C27: the archive a successful export of the base build's rootfs wrote does
\* not hold the provisioning script.
C27_Original ==
    (inv.kind = "base" /\ ~ex.diff /\ ex.tarOk) =>
        ~Exists(archives[TarGzName].tree, SetupSh)

\* The archives in the work directory that carry the base image's name.
BaseNamed(as) == {a \in DOMAIN as : ~a.layered}

\* C28: no step of an invocation for another layer than ubuntu-base creates
\* an archive named for ubuntu-base, or removes, creates or repoints the base
\* image's latest symlink.
C28_Original ==
    [][inv.name = UbuntuJava8 =>
          /\ BaseNamed(archives') = BaseNamed(archives)
          /\ Exists(latest', BaseLatest) = Exists(latest, BaseLatest)
          /\ Exists(latest, BaseLatest) => latest'[BaseLatest] = latest[BaseLatest]]_vars

\* C30: when createLayerFromParent has returned nil, the layer's rootfs holds
\* what the parent's rootfs holds (nothing has written either since the copy).
C30_Original ==
    (pc = "write" /\ bl.cloned) =>
        /\ dirExists(inv.name)
        /\ Rootfs(inv.name) = Rootfs(inv.parent)

\* C29: when a layered invocation's diff export has written the layer's
\* metadata record, the rootfs it exported was cloned in this build, by a copy
\* that landed in the layer's own directory, from the parent the record names.
C29_Original ==
    (/\ pc = "close" /\ inv.kind = "layer" /\ ex.diff /\ ex.tarOk
     /\ Exists(meta, inv.name) /\ meta[inv.name].archive = TarGzName) =>
        /\ bl.cloned
        /\ ~cont[inv.name].nested
        /\ meta[inv.name].parent_layer = inv.parent

====
